---- MODULE Spec2Model ----
(***************************************************************************)
(* The image-transformation Lambda handler (exports.handler), the S3       *)
(* buckets it reads and writes, and the CloudFront origin group that sits  *)
(* in front of it.                                                         *)
(*                                                                         *)
(* JavaScript strings that the handler takes apart (the request path, the  *)
(* secret header, the operations and their values) are sequences of        *)
(* one-character strings, so that split, join, pop, shift and parseInt are *)
(* computed character by character.  Strings the handler only passes on    *)
(* (messages, content types, bucket names) are TLA+ strings.               *)
(***************************************************************************)
EXTENDS Integers, Sequences, FiniteSets, TLC

\* Largest number of comma-separated operations in a generated token.
MaxOps == 2
\* Number of handler invocations that one behaviour contains.
NumInvocations == 2

-----------------------------------------------------------------------------
(* String literals *)

S_format   == <<"f","o","r","m","a","t">>
S_width    == <<"w","i","d","t","h">>
S_height   == <<"h","e","i","g","h","t">>
S_quality  == <<"q","u","a","l","i","t","y">>
S_original == <<"o","r","i","g","i","n","a","l">>
S_jpeg     == <<"j","p","e","g">>
S_svg      == <<"s","v","g">>
S_gif      == <<"g","i","f">>
S_webp     == <<"w","e","b","p">>
S_png      == <<"p","n","g">>
S_avif     == <<"a","v","i","f">>
S_tiff     == <<"t","i","f","f">>
S_foo      == <<"f","o","o">>

-----------------------------------------------------------------------------
(* JavaScript values and built-ins *)

\* A value that is either undefined or a string.
JSUndefined == [defined |-> FALSE, str |-> <<>>]
JSString(s) == [defined |-> TRUE, str |-> s]

\* if (v): undefined and the empty string are falsy, every other string is truthy.
Truthy(v) == v.defined /\ v.str # <<>>

\* String.prototype.split with a one-character separator.
RECURSIVE SplitAcc(_, _, _, _)
SplitAcc(s, c, cur, acc) ==
    IF s = <<>> THEN Append(acc, cur)
    ELSE IF Head(s) = c THEN SplitAcc(Tail(s), c, <<>>, Append(acc, cur))
    ELSE SplitAcc(Tail(s), c, Append(cur, Head(s)), acc)

Split(s, c) == SplitAcc(s, c, <<>>, <<>>)

\* Array.prototype.join with a one-character separator.
RECURSIVE Join(_, _)
Join(arr, c) ==
    IF arr = <<>> THEN <<>>
    ELSE IF Len(arr) = 1 THEN arr[1]
    ELSE arr[1] \o <<c>> \o Join(Tail(arr), c)

\* Array.prototype.pop: the removed element and the remaining array.
PopValue(arr) == IF arr = <<>> THEN JSUndefined ELSE JSString(arr[Len(arr)])
PopRest(arr)  == IF arr = <<>> THEN <<>> ELSE SubSeq(arr, 1, Len(arr) - 1)

\* Array.prototype.shift: the remaining array.
ShiftRest(arr) == IF arr = <<>> THEN <<>> ELSE Tail(arr)

Digits == {"0","1","2","3","4","5","6","7","8","9"}

DigitVal(c) ==
    CASE c = "0" -> 0 [] c = "1" -> 1 [] c = "2" -> 2 [] c = "3" -> 3
      [] c = "4" -> 4 [] c = "5" -> 5 [] c = "6" -> 6 [] c = "7" -> 7
      [] c = "8" -> 8 [] c = "9" -> 9

\* A JavaScript number that is either NaN or an integer.
NaN    == [nan |-> TRUE, n |-> 0]
Num(n) == [nan |-> FALSE, n |-> n]

RECURSIVE SkipSpaces(_)
SkipSpaces(s) ==
    IF s # <<>> /\ Head(s) = " " THEN SkipSpaces(Tail(s)) ELSE s

\* The value of the longest prefix of decimal digits, given the value so far.
RECURSIVE DigitPrefix(_, _)
DigitPrefix(s, acc) ==
    IF s # <<>> /\ Head(s) \in Digits
    THEN DigitPrefix(Tail(s), 10 * acc + DigitVal(Head(s)))
    ELSE acc

\* parseInt(string): leading blanks, an optional sign, then decimal digits;
\* NaN when no digit follows.
ParseInt(str) ==
    LET t    == SkipSpaces(str)
        neg  == t # <<>> /\ Head(t) = "-"
        body == IF t # <<>> /\ Head(t) \in {"-", "+"} THEN Tail(t) ELSE t
    IN  IF body = <<>> \/ Head(body) \notin Digits THEN NaN
        ELSE IF neg THEN Num(0 - DigitPrefix(body, 0))
        ELSE Num(DigitPrefix(body, 0))

\* Mutant: a property that is already set keeps its value.
SetProp_KeepFirst(obj, key, value) == obj @@ (key :> value)

\* An empty object and the assignment obj[key] = value.
EmptyObject == <<>>
SetProp(obj, key, value) == (key :> value) @@ obj
\* obj[key]: undefined when the property was never assigned.
GetProp(obj, key) == IF key \in DOMAIN obj THEN obj[key] ELSE JSUndefined

-----------------------------------------------------------------------------
(* Configuration read from the environment when the module is loaded *)

S3_ORIGINAL_IMAGE_BUCKET    == "originalImageBucket"
TRANSFORMED_IMAGE_CACHE_TTL == "max-age=31622400"
\* The secret shared by the CloudFront origin and the handler.
SECRET_KEY                  == <<"k","9">>
\* The bucket of transformed images, when storeTransformedImages is set.
TransformedBucketName       == "transformedImageBucket"

VARIABLES
    S3_TRANSFORMED_IMAGE_BUCKET,  \* the bucket name, or "undefined"
    inv,                          \* the handler invocations and their locals
    transformedObjects,           \* the transformed bucket: key -> object
    edgeLast,                     \* the last request CloudFront served from S3
    live                          \* paths whose stored object has not expired

vars == <<S3_TRANSFORMED_IMAGE_BUCKET, inv, transformedObjects, edgeLast, live>>

Invocations == 1 .. NumInvocations

-----------------------------------------------------------------------------
(* The bucket of original images; the handler only reads it *)

K_rio == <<"i","/","r","/","a">>
K_b   == <<"i","/","b">>

OriginalObjects ==
    (K_rio :> [Body |-> "bytes-of-i/r/a", ContentType |-> "image/jpeg"])
    @@ (K_b :> [Body |-> "bytes-of-i/b", ContentType |-> "image/png"])

-----------------------------------------------------------------------------
(* exports.handler: the synchronous pieces *)

\* Mutant: the header only has to be present.
Authorized_PresentOnly(event) == Truthy(event.secretHeader)

\* The x-origin-secret-header check.
Authorized(event) ==
    /\ Truthy(event.secretHeader)
    /\ event.secretHeader.str = SECRET_KEY

\* Mutant: every method but POST is let through.
IsGet_NotPost(event) == event.method # "POST"

\* The GET check.
IsGet(event) ==
    /\ event.hasRequestContext
    /\ event.hasHttp
    /\ event.method = "GET"

ImagePathArray(path) == Split(path, "/")

\* imagePathArray.pop()
OperationsPrefix(path) == PopValue(ImagePathArray(path)).str

\* Mutant: the routing prefix is shifted out as well.
OriginalImagePath_DropPrefix(path) ==
    Join(ShiftRest(ShiftRest(PopRest(ImagePathArray(path)))), "/")

\* imagePathArray.shift(); imagePathArray.join('/')
OriginalImagePath(path) ==
    Join(ShiftRest(PopRest(ImagePathArray(path))), "/")

\* operationsArray.forEach(operation => operations[KV[0]] = KV[1])
RECURSIVE AssignOperations(_, _)
AssignOperations(operationsArray, operations) ==
    IF operationsArray = <<>> THEN operations
    ELSE LET operationKV == Split(Head(operationsArray), "=")
             value == IF Len(operationKV) >= 2
                      THEN JSString(operationKV[2]) ELSE JSUndefined
         IN  AssignOperations(Tail(operationsArray),
                              SetProp(operations, operationKV[1], value))

ParseOperations(operationsPrefix) ==
    AssignOperations(Split(operationsPrefix, ","), EmptyObject)

\* resizingOptions after the two conditional assignments.
ResizingOptions(operations) ==
    LET w == GetProp(operations, S_width)
        h == GetProp(operations, S_height)
        keys == (IF Truthy(w) THEN {"width"} ELSE {})
                \cup (IF Truthy(h) THEN {"height"} ELSE {})
    IN  [k \in keys |-> IF k = "width" THEN ParseInt(w.str) ELSE ParseInt(h.str)]

\* The switch on operations['format']: the content type ...
FormatContentType(format) ==
    CASE format = S_jpeg -> "image/jpeg"
      [] format = S_svg  -> "image/svg+xml"
      [] format = S_gif  -> "image/gif"
      [] format = S_webp -> "image/webp"
      [] format = S_png  -> "image/png"
      [] format = S_avif -> "image/avif"
      [] OTHER           -> "image/jpeg"

\* Mutant: every format is lossy.
IsLossy_Always(format) == TRUE

\* ... and isLossy.
IsLossy(format) ==
    CASE format = S_jpeg -> TRUE
      [] format = S_svg  -> FALSE
      [] format = S_gif  -> FALSE
      [] format = S_webp -> TRUE
      [] format = S_png  -> FALSE
      [] format = S_avif -> TRUE
      [] OTHER           -> TRUE

NotCalled == [called |-> FALSE]
NoOptions == <<>>

\* The sharpImage.toFormat(...) call, if any.
ToFormatCall(operations) ==
    LET f == GetProp(operations, S_format)
        q == GetProp(operations, S_quality)
    IN  IF ~Truthy(f) THEN NotCalled
        ELSE IF Truthy(q) /\ IsLossy(f.str)
        THEN [called |-> TRUE, format |-> f.str,
              options |-> [k \in {"quality"} |-> ParseInt(q.str)]]
        ELSE [called |-> TRUE, format |-> f.str, options |-> NoOptions]

\* contentType after the formatting block.
ContentTypeAfter(operations, contentType) ==
    IF Truthy(GetProp(operations, S_format))
    THEN FormatContentType(GetProp(operations, S_format).str)
    ELSE contentType

\* The chain Sharp(body).rotate().resize(resizingOptions)[.toFormat(...)].
SharpChain(body, operations) ==
    [called   |-> TRUE,
     input    |-> body,
     rotate   |-> TRUE,
     resize   |-> ResizingOptions(operations),
     toFormat |-> ToFormatCall(operations)]

\* The buffers toBuffer() can resolve with: the encoding of the chain.
ToBufferOutcomes(chain) == {[encoded |-> chain]}

\* Mutant: the key is built without the separator.
TransformedKey_NoSeparator(originalImagePath, operationsPrefix) ==
    originalImagePath \o operationsPrefix

TransformedKey(originalImagePath, operationsPrefix) ==
    originalImagePath \o <<"/">> \o operationsPrefix

\* Mutant: the content type follows the Accept header of the request.
PutObjectParams_Accept(v) ==
    [called      |-> TRUE,
     Body        |-> v.sharpImage,
     Bucket      |-> S3_TRANSFORMED_IMAGE_BUCKET,
     Key         |-> v.originalImagePath.str \o <<"/">> \o v.operationsPrefix.str,
     ContentType |-> IF v.event.accept = "*/*" THEN v.contentType ELSE v.event.accept,
     Metadata    |-> [cacheControl |-> TRANSFORMED_IMAGE_CACHE_TTL]]

\* The parameters of S3.putObject, from the locals v of an invocation.
PutObjectParams(v) ==
    [called      |-> TRUE,
     Body        |-> v.sharpImage,
     Bucket      |-> S3_TRANSFORMED_IMAGE_BUCKET,
     Key         |-> TransformedKey(v.originalImagePath.str, v.operationsPrefix.str),
     ContentType |-> v.contentType,
     Metadata    |-> [cacheControl |-> TRANSFORMED_IMAGE_CACHE_TTL]]

\* The object S3 stores for a putObject.
StoredObject(params) ==
    [Body |-> params.Body, ContentType |-> params.ContentType,
     Metadata |-> params.Metadata]

\* Mutant: the error is sent to the client.
SendError_Leak(code, message, error) == [statusCode |-> code, body |-> error]

\* sendError: the response ...
SendError(code, message, error) == [statusCode |-> code, body |-> message]

\* ... and the two console.log lines.
SendErrorLog(message, error) ==
    << <<"APPLICATION ERROR", message>>, <<error>> >>

\* The response of a successful invocation.
SuccessResponse(v) ==
    [statusCode      |-> 200,
     body            |-> [base64 |-> v.sharpImage],
     isBase64Encoded |-> TRUE,
     headers         |-> [ContentType  |-> v.contentType,
                          CacheControl |-> TRANSFORMED_IMAGE_CACHE_TTL]]

-----------------------------------------------------------------------------
(* The locals of one invocation of exports.handler *)

NoEvent ==
    [secretHeader |-> JSUndefined, accept |-> "", hasRequestContext |-> FALSE,
     hasHttp |-> FALSE, method |-> "undefined", path |-> <<>>]

NoBuffer   == [encoded |-> NotCalled]
NoResponse == [statusCode |-> 0]

IdleLocals ==
    [pc                |-> "idle",
     via               |-> "none",
     event             |-> NoEvent,
     operationsPrefix  |-> JSUndefined,
     originalImagePath |-> JSUndefined,
     getObject         |-> NotCalled,
     getResult         |-> "none",
     contentType       |-> "undefined",
     operations        |-> EmptyObject,
     sharp             |-> NotCalled,
     bufResult         |-> "none",
     sharpImage        |-> NoBuffer,
     putObject         |-> NotCalled,
     putResult         |-> "none",
     response          |-> NoResponse,
     console           |-> <<>>]

\* return sendError(code, message, error)
ReturnError(v, code, message, error) ==
    [v EXCEPT !.pc = "done",
              !.response = SendError(code, message, error),
              !.console = @ \o SendErrorLog(message, error)]

\* The handler from its entry to its first await: the two gates, the path
\* split and the S3.getObject call.
HandlerEntry(event, via) ==
    LET v == [IdleLocals EXCEPT !.via = via, !.event = event]
    IN  IF ~Authorized(event)
        THEN ReturnError(v, 403, "Request unauthorized.", "event")
        ELSE IF ~IsGet(event)
        THEN ReturnError(v, 400, "Only GET method is supported.", "event")
        ELSE [v EXCEPT
                !.pc = "getObject",
                !.operationsPrefix = JSString(OperationsPrefix(event.path)),
                !.originalImagePath = JSString(OriginalImagePath(event.path)),
                !.getObject = [called |-> TRUE,
                               Bucket |-> S3_ORIGINAL_IMAGE_BUCKET,
                               Key    |-> OriginalImagePath(event.path)]]

\* From the resolved getObject to the await of toBuffer().
AfterGetObject(v, originalImage) ==
    LET operations == ParseOperations(v.operationsPrefix.str)
    IN  [v EXCEPT
           !.pc = "toBuffer",
           !.getResult = "ok",
           !.operations = operations,
           !.sharp = SharpChain(originalImage.Body, operations),
           !.contentType = ContentTypeAfter(operations, originalImage.ContentType)]

\* From the resolved toBuffer() to the await of putObject, or to the return.
AfterToBuffer(v, buffer) ==
    LET w == [v EXCEPT !.bufResult = "ok", !.sharpImage = buffer]
    IN  IF S3_TRANSFORMED_IMAGE_BUCKET # "undefined"
        THEN [w EXCEPT !.pc = "putObject", !.putObject = PutObjectParams(w)]
        ELSE [w EXCEPT !.pc = "done", !.response = SuccessResponse(w)]

\* From the resolved putObject to the return.
AfterPutObject(v) ==
    [v EXCEPT !.pc = "done", !.putResult = "ok", !.response = SuccessResponse(v)]

-----------------------------------------------------------------------------
(* The CloudFront distribution in front of the handler *)

\* The key the S3 origin is asked for: the request path without its leading "/".
EdgeKey(path) == Tail(path)

\* The request CloudFront sends to the Lambda URL origin.
EdgeEvent(path, method) ==
    [secretHeader |-> JSString(SECRET_KEY), accept |-> "*/*",
     hasRequestContext |-> TRUE, hasHttp |-> TRUE,
     method |-> method, path |-> path]

\* Invocations are numbered in the order in which they start.
NextToStart(i) ==
    /\ inv[i].pc = "idle"
    /\ \A j \in Invocations : j < i => inv[j].pc # "idle"

-----------------------------------------------------------------------------
(* Actions *)

\* A request that reaches the Lambda URL without passing through CloudFront.
DirectInvoke(i, event) ==
    /\ NextToStart(i)
    /\ inv' = [inv EXCEPT ![i] = HandlerEntry(event, "direct")]
    /\ UNCHANGED <<S3_TRANSFORMED_IMAGE_BUCKET, transformedObjects, edgeLast, live>>

\* CloudFront finds the object in the primary origin, the transformed bucket.
EdgeServeFromS3(path) ==
    /\ S3_TRANSFORMED_IMAGE_BUCKET # "undefined"
    /\ EdgeKey(path) \in DOMAIN transformedObjects
    /\ edgeLast' = JSString(path)
    /\ UNCHANGED <<S3_TRANSFORMED_IMAGE_BUCKET, inv, transformedObjects, live>>

\* The primary origin answers 403 (or there is no transformed bucket) and
\* CloudFront forwards the request to the Lambda URL.
EdgeFallback(i, path, method) ==
    /\ \/ S3_TRANSFORMED_IMAGE_BUCKET = "undefined"
       \/ EdgeKey(path) \notin DOMAIN transformedObjects
    /\ NextToStart(i)
    /\ inv' = [inv EXCEPT ![i] = HandlerEntry(EdgeEvent(path, method), "edge")]
    /\ UNCHANGED <<S3_TRANSFORMED_IMAGE_BUCKET, transformedObjects, edgeLast, live>>

\* await S3.getObject(...).promise() resolves.
GetObjectResolve(i) ==
    /\ inv[i].pc = "getObject"
    /\ inv[i].getObject.Key \in DOMAIN OriginalObjects
    /\ inv' = [inv EXCEPT
                 ![i] = AfterGetObject(@, OriginalObjects[inv[i].getObject.Key])]
    /\ UNCHANGED <<S3_TRANSFORMED_IMAGE_BUCKET, transformedObjects, edgeLast, live>>

\* await S3.getObject(...).promise() rejects.
GetObjectReject(i, error) ==
    /\ inv[i].pc = "getObject"
    /\ error = "NoSuchKey" <=> inv[i].getObject.Key \notin DOMAIN OriginalObjects
    /\ inv' = [inv EXCEPT
                 ![i] = ReturnError([@ EXCEPT !.getResult = error], 500,
                                    "Error downloading original image.", error)]
    /\ UNCHANGED <<S3_TRANSFORMED_IMAGE_BUCKET, transformedObjects, edgeLast, live>>

\* await sharpImage.toBuffer() resolves.
ToBufferResolve(i) ==
    /\ inv[i].pc = "toBuffer"
    /\ \E buffer \in ToBufferOutcomes(inv[i].sharp) :
         inv' = [inv EXCEPT ![i] = AfterToBuffer(@, buffer)]
    /\ UNCHANGED <<S3_TRANSFORMED_IMAGE_BUCKET, transformedObjects, edgeLast, live>>

\* Something between Sharp(...) and toBuffer() throws.
ToBufferReject(i) ==
    /\ inv[i].pc = "toBuffer"
    /\ inv' = [inv EXCEPT
                 ![i] = ReturnError([@ EXCEPT !.bufResult = "SharpError"], 500,
                                    "error transforming image", "SharpError")]
    /\ UNCHANGED <<S3_TRANSFORMED_IMAGE_BUCKET, transformedObjects, edgeLast, live>>

\* await S3.putObject(...).promise() resolves: the object is in the bucket.
PutObjectResolve(i) ==
    /\ inv[i].pc = "putObject"
    /\ transformedObjects' =
         (inv[i].putObject.Key :> StoredObject(inv[i].putObject)) @@ transformedObjects
    /\ inv' = [inv EXCEPT ![i] = AfterPutObject(@)]
    /\ live' = live \cup {[path |-> inv[i].event.path, key |-> inv[i].putObject.Key]}
    /\ UNCHANGED <<S3_TRANSFORMED_IMAGE_BUCKET, edgeLast>>

\* await S3.putObject(...).promise() rejects: the bucket is unchanged.
PutObjectReject(i, error) ==
    /\ inv[i].pc = "putObject"
    /\ inv' = [inv EXCEPT
                 ![i] = ReturnError([@ EXCEPT !.putResult = error], 500,
                                    "Could not upload transformed image to S3.", error)]
    /\ UNCHANGED <<S3_TRANSFORMED_IMAGE_BUCKET, transformedObjects, edgeLast, live>>

\* The lifecycle rule of the transformed bucket deletes an object.
Expire(key) ==
    /\ key \in DOMAIN transformedObjects
    /\ transformedObjects' =
         [k \in DOMAIN transformedObjects \ {key} |-> transformedObjects[k]]
    /\ live' = {e \in live : e.key # key}
    /\ UNCHANGED <<S3_TRANSFORMED_IMAGE_BUCKET, inv, edgeLast>>

-----------------------------------------------------------------------------
(* Requests *)

Slash == <<"/">>

\* The operations a generated token is made of: the literal "original", a key
\* without "=", and key=value pairs with valid, malformed and empty values.
FormatValues  == {S_jpeg, S_png, S_webp, S_gif, S_svg, S_avif, S_tiff, <<>>}
WidthValues   == {<<"2","0">>, <<"a","b">>, <<>>, <<"7","=","9">>}
HeightValues  == {<<"1","5">>, <<"x">>}
QualityValues == {<<"8","0">>, <<>>}

OpStrings ==
    {S_original, S_width}
    \cup {S_format \o <<"=">> \o x : x \in FormatValues}
    \cup {S_width \o <<"=">> \o x : x \in WidthValues}
    \cup {S_height \o <<"=">> \o x : x \in HeightValues}
    \cup {S_quality \o <<"=">> \o x : x \in QualityValues}
    \cup {S_foo \o <<"=">> \o <<"1">>}

Tokens ==
    {Join(ops, ",") : ops \in UNION {[1 .. n -> OpStrings] : n \in 1 .. MaxOps}}

T_original == S_original
T_width20  == S_width \o <<"=">> \o <<"2","0">>
T_webp20   == S_format \o <<"=">> \o S_webp \o <<",">> \o T_width20

\* Paths /i/b/<token> for every token, and other shapes with a few tokens.
RichPaths ==
    {Slash \o K_b \o Slash \o t : t \in Tokens}
    \cup {pre \o t : pre \in {Slash \o K_rio \o Slash,
                              <<"/","i","/">>,
                              <<"/">>,
                              <<"/","i","/","/","b","/">>,
                              <<"/","x","/","i","/","b","/">>},
                     t \in {T_original, T_webp20}}

P_b_original == Slash \o K_b \o Slash \o T_original
P_b_width20  == Slash \o K_b \o Slash \o T_width20
P_x_original == <<"/","i","/","x","/">> \o T_original

AuthorizedGet(path, accept) ==
    [secretHeader |-> JSString(SECRET_KEY), accept |-> accept,
     hasRequestContext |-> TRUE, hasHttp |-> TRUE, method |-> "GET", path |-> path]

\* Every shape of secret header and of requestContext, for one path.
GateEvents(path) ==
    {[secretHeader |-> h, accept |-> "*/*", hasRequestContext |-> rc.ctx,
      hasHttp |-> rc.http, method |-> rc.method, path |-> path] :
        h  \in {JSUndefined, JSString(<<>>), JSString(<<"k","8">>),
                JSString(SECRET_KEY)},
        rc \in {[ctx |-> FALSE, http |-> FALSE, method |-> "undefined"],
                [ctx |-> TRUE,  http |-> FALSE, method |-> "undefined"],
                [ctx |-> TRUE,  http |-> TRUE,  method |-> "undefined"],
                [ctx |-> TRUE,  http |-> TRUE,  method |-> "POST"],
                [ctx |-> TRUE,  http |-> TRUE,  method |-> "GET"]}}

\* The requests of the one-invocation specification.
RichEvents ==
    {AuthorizedGet(p, "*/*") : p \in RichPaths} \cup GateEvents(P_b_original)
RichEdgePaths == {P_b_original, Slash \o K_rio \o Slash \o T_webp20}

\* The requests of the concurrent specification.
SysEvents ==
    {AuthorizedGet(P_b_original, "image/webp"),
     AuthorizedGet(P_x_original, "*/*"),
     [AuthorizedGet(P_b_original, "*/*") EXCEPT !.secretHeader = JSUndefined],
     [AuthorizedGet(P_b_original, "*/*") EXCEPT !.secretHeader = JSString(<<"k","8">>)],
     [AuthorizedGet(P_b_original, "*/*") EXCEPT !.method = "POST"]}
SysEdgePaths == {P_b_original, P_b_width20}

EdgeMethods == {"GET", "HEAD"}
S3Errors    == {"NoSuchKey", "AccessDenied"}

-----------------------------------------------------------------------------
(* Specifications *)

Init ==
    /\ S3_TRANSFORMED_IMAGE_BUCKET \in {"undefined", TransformedBucketName}
    /\ inv = [i \in Invocations |-> IdleLocals]
    /\ transformedObjects = <<>>
    /\ edgeLast = JSUndefined
    /\ live = {}

NextOver(I, events, edgePaths) ==
    \/ \E i \in I, event \in events : DirectInvoke(i, event)
    \/ \E path \in edgePaths : EdgeServeFromS3(path)
    \/ \E i \in I, path \in edgePaths, method \in EdgeMethods :
         EdgeFallback(i, path, method)
    \/ \E i \in I : GetObjectResolve(i)
    \/ \E i \in I, error \in S3Errors : GetObjectReject(i, error)
    \/ \E i \in I : ToBufferResolve(i)
    \/ \E i \in I : ToBufferReject(i)
    \/ \E i \in I : PutObjectResolve(i)
    \/ \E i \in I : PutObjectReject(i, "AccessDenied")
    \/ \E key \in DOMAIN transformedObjects : Expire(key)

\* Concurrent invocations behind CloudFront, for a few requests.
Next == NextOver(Invocations, SysEvents, SysEdgePaths)
Spec == Init /\ [][Next]_vars

\* One invocation, for every generated request.
NextRequests == NextOver({1}, RichEvents, RichEdgePaths)
SpecRequests == Init /\ [][NextRequests]_vars

-----------------------------------------------------------------------------
(* Claims *)

Segments(path) == Split(path, "/")
\* The path has the shape /<routingPrefix>/<s1>/.../<sn>/<token> with n >= 1.
HasRoutedShape(path) == Len(Segments(path)) >= 4 /\ Segments(path)[1] = <<>>
RecognizedFormats == {S_jpeg, S_png, S_webp, S_avif, S_gif, S_svg}
Failed(result) == result \notin {"none", "ok"}

\* C1 (as claimed): with write-through configured, a failed write to the
\* transformed bucket leaves the response at 200 with the transformed bytes.
C1_WriteFailureKeepsSuccess ==
    \A i \in Invocations :
        (inv[i].putObject.called /\ Failed(inv[i].putResult)) =>
            /\ inv[i].response.statusCode = 200
            /\ inv[i].response.body = [base64 |-> inv[i].sharpImage]

\* C2: a request whose secret header is absent or differs from SECRET_KEY is
\* answered 403 and neither getObject nor putObject is called for it.
C2_UnauthorizedNoStorage ==
    \A i \in Invocations :
        (/\ inv[i].pc # "idle"
         /\ \/ ~inv[i].event.secretHeader.defined
            \/ inv[i].event.secretHeader.str # SECRET_KEY) =>
            /\ inv[i].pc = "done"
            /\ inv[i].response.statusCode = 403
            /\ ~inv[i].getObject.called
            /\ ~inv[i].putObject.called

C2_Witness ==
    \E i \in Invocations :
        /\ inv[i].pc = "done"
        /\ inv[i].event.secretHeader = JSString(<<"k","8">>)
        /\ inv[i].event.method = "GET"
        /\ inv[i].response.statusCode = 403

\* C3 (as claimed): for an authenticated GET of /<routingPrefix>/<s1>/.../<sn>/<token>
\* the last segment is the operations token and the original is fetched
\* under s1/.../sn, without the routing prefix.
C3_PrefixDiscarded ==
    \A i \in Invocations :
        (inv[i].getObject.called /\ HasRoutedShape(inv[i].event.path)) =>
            LET segs == Segments(inv[i].event.path)
            IN  /\ inv[i].operationsPrefix.str = segs[Len(segs)]
                /\ inv[i].getObject.Key = Join(SubSeq(segs, 3, Len(segs) - 1), "/")

\* C3 (amended): the last segment is the operations token and the original is
\* fetched under <routingPrefix>/s1/.../sn: the path is
\* "/" + Key + "/" + operationsPrefix, and operationsPrefix has no "/".
C3_PathGate ==
    \A i \in Invocations :
        (inv[i].getObject.called /\ HasRoutedShape(inv[i].event.path)) =>
            LET segs == Segments(inv[i].event.path)
            IN  /\ inv[i].operationsPrefix.str = segs[Len(segs)]
                /\ inv[i].getObject.Key = Join(SubSeq(segs, 2, Len(segs) - 1), "/")
                /\ inv[i].event.path =
                     Slash \o inv[i].getObject.Key \o Slash \o inv[i].operationsPrefix.str
                /\ \A n \in 1 .. Len(inv[i].operationsPrefix.str) :
                     inv[i].operationsPrefix.str[n] # "/"

C3_Witness ==
    \E i \in Invocations :
        /\ inv[i].getObject.called
        /\ inv[i].event.path = Slash \o K_rio \o Slash \o T_webp20
        /\ inv[i].getObject.Key = K_rio
        /\ inv[i].operationsPrefix.str = T_webp20

\* C4 (as claimed): with write-through enabled, once an invocation for path P
\* has completed successfully the transformed bucket holds the object
\* CloudFront looks up for P, at every later time.
C4_StoredForever ==
    \A i \in Invocations :
        (/\ S3_TRANSFORMED_IMAGE_BUCKET # "undefined"
         /\ inv[i].pc = "done"
         /\ inv[i].response.statusCode = 200) =>
            EdgeKey(inv[i].event.path) \in DOMAIN transformedObjects

\* An invocation for P completes successfully with write-through enabled:
\* the bucket then holds its bytes under the key CloudFront looks up for P.
C4_StoredOnCompletion ==
    \A i \in Invocations :
        (/\ S3_TRANSFORMED_IMAGE_BUCKET # "undefined"
         /\ inv[i].pc # "done"
         /\ inv'[i].pc = "done"
         /\ inv'[i].response.statusCode = 200) =>
            /\ EdgeKey(inv[i].event.path) \in DOMAIN transformedObjects'
            /\ transformedObjects'[EdgeKey(inv[i].event.path)].Body = inv'[i].sharpImage
            /\ inv[i].event.path \in {e.path : e \in live'}

\* No invocation is started by CloudFront for a path whose object is stored.
C4_NoReinvocation ==
    \A i \in Invocations :
        (inv[i].pc = "idle" /\ inv'[i].pc # "idle" /\ inv'[i].via = "edge") =>
            inv'[i].event.path \notin {e.path : e \in live}

\* C4 (amended): with write-through enabled, when an invocation for P completes
\* successfully the transformed bucket holds the object under the key CloudFront
\* looks up for P, and until the lifecycle rule expires that object every
\* CloudFront request for P finds it there and does not invoke the handler.
C4_ServedUntilExpiry ==
    /\ [](\A e \in live : EdgeKey(e.path) \in DOMAIN transformedObjects)
    /\ [][C4_StoredOnCompletion /\ C4_NoReinvocation]_vars

C4_Witness ==
    \E e \in live : edgeLast = JSString(e.path)

\* C5 (as claimed): for a format value outside the six recognized ones the
\* encoder is asked for jpeg and the content type is image/jpeg.
C5_UnrecognizedFormatEncodesJpeg ==
    \A i \in Invocations :
        (/\ inv[i].sharp.called
         /\ Truthy(GetProp(inv[i].operations, S_format))
         /\ GetProp(inv[i].operations, S_format).str \notin RecognizedFormats) =>
            /\ inv[i].sharp.toFormat.called
            /\ inv[i].sharp.toFormat.format = S_jpeg
            /\ inv[i].contentType = "image/jpeg"

\* C6 (as claimed): a width or height whose value is not numeric is not
\* passed to resize.
C6_MalformedDimensionDropped ==
    \A i \in Invocations :
        inv[i].sharp.called =>
            LET w == GetProp(inv[i].operations, S_width)
                h == GetProp(inv[i].operations, S_height)
            IN  /\ (w.defined /\ ParseInt(w.str).nan) =>
                      "width" \notin DOMAIN inv[i].sharp.resize
                /\ (h.defined /\ ParseInt(h.str).nan) =>
                      "height" \notin DOMAIN inv[i].sharp.resize

C8_NonGetStopsAtMethodGate ==
    \A i \in Invocations :
        (/\ inv[i].pc # "idle"
         /\ inv[i].event.secretHeader = JSString(SECRET_KEY)
         /\ ~(/\ inv[i].event.hasRequestContext
              /\ inv[i].event.hasHttp
              /\ inv[i].event.method = "GET")) =>
            /\ inv[i].pc = "done"
            /\ inv[i].response.statusCode = 400
            /\ inv[i].operationsPrefix = JSUndefined
            /\ inv[i].originalImagePath = JSUndefined
            /\ ~inv[i].getObject.called
            /\ ~inv[i].sharp.called
            /\ ~inv[i].putObject.called

C8_Witness ==
    \E i \in Invocations :
        /\ inv[i].pc = "done"
        /\ inv[i].event.secretHeader = JSString(SECRET_KEY)
        /\ inv[i].event.hasHttp
        /\ inv[i].event.method = "undefined"
        /\ inv[i].response.statusCode = 400

\* C9: when getObject fails the response is 500 with the fixed message and
\* nothing else, and neither Sharp nor putObject is called.
C9_FetchFailure ==
    \A i \in Invocations :
        (inv[i].getObject.called /\ Failed(inv[i].getResult)) =>
            /\ inv[i].pc = "done"
            /\ inv[i].response =
                 [statusCode |-> 500, body |-> "Error downloading original image."]
            /\ ~inv[i].sharp.called
            /\ ~inv[i].putObject.called

C9_Witness ==
    \E i \in Invocations :
        /\ inv[i].pc = "done"
        /\ inv[i].getResult = "NoSuchKey"
        /\ inv[i].response.statusCode = 500

\* C10: for format png, gif or svg toFormat is called without options whether
\* or not quality is present; for jpeg, webp or avif with a quality value it is
\* called with that quality.
C10_QualityOnlyWhenLossy ==
    \A i \in Invocations :
        LET f == GetProp(inv[i].operations, S_format)
            q == GetProp(inv[i].operations, S_quality)
        IN  (inv[i].sharp.called /\ Truthy(f)) =>
              /\ f.str \in {S_png, S_gif, S_svg} =>
                   inv[i].sharp.toFormat =
                     [called |-> TRUE, format |-> f.str, options |-> NoOptions]
              /\ (f.str \in {S_jpeg, S_webp, S_avif} /\ q = JSString(<<"8","0">>)) =>
                   inv[i].sharp.toFormat =
                     [called |-> TRUE, format |-> f.str,
                      options |-> [k \in {"quality"} |-> Num(80)]]

C10_Witness ==
    \E i \in Invocations :
        /\ inv[i].sharp.called
        /\ GetProp(inv[i].operations, S_format) = JSString(S_png)
        /\ GetProp(inv[i].operations, S_quality) = JSString(<<"8","0">>)
        /\ inv[i].sharp.toFormat.options = NoOptions

RecognizedKeys == {S_format, S_width, S_height, S_quality}

\* The value of the last comma-separated segment of the token whose text
\* before its first "=" is key: the text between its first and second "=",
\* undefined when the segment has no "=" or no segment has that key.
LastOccurrence(token, key) ==
    LET segs == Split(token, ",")
        hits == {n \in 1 .. Len(segs) : Split(segs[n], "=")[1] = key}
    IN  IF hits = {} THEN JSUndefined
        ELSE LET last == CHOOSE n \in hits : \A m \in hits : m <= n
                 kv   == Split(segs[last], "=")
             IN  IF Len(kv) >= 2 THEN JSString(kv[2]) ELSE JSUndefined

\* The map of the recognized keys to their last occurrences.
LastOccurrenceSpec(token) == [k \in RecognizedKeys |-> LastOccurrence(token, k)]

\* C11: in the parsed operations every recognized key has the value of its last
\* occurrence in the token; the Sharp chain and the content type are those of
\* the recognized keys alone, so other keys have no effect; the token "original"
\* gives no resize dimension, no toFormat call and the content type of the
\* original, also in the response.
C11_LastOccurrenceWins ==
    \A i \in Invocations :
        inv[i].sharp.called =>
            LET token    == inv[i].operationsPrefix.str
                original == OriginalObjects[inv[i].getObject.Key]
                spec     == LastOccurrenceSpec(token)
            IN  /\ \A k \in RecognizedKeys : GetProp(inv[i].operations, k) = spec[k]
                /\ inv[i].sharp = SharpChain(original.Body, spec)
                /\ inv[i].contentType = ContentTypeAfter(spec, original.ContentType)
                /\ token = S_original =>
                     /\ inv[i].sharp.resize = <<>>
                     /\ inv[i].sharp.toFormat = NotCalled
                     /\ inv[i].contentType = original.ContentType
                     /\ inv[i].response.statusCode = 200 =>
                          inv[i].response.headers.ContentType = original.ContentType

C11_Witness ==
    \E i \in Invocations :
        /\ inv[i].pc = "done"
        /\ inv[i].response.statusCode = 200
        /\ inv[i].operationsPrefix.str =
             S_format \o <<"=">> \o S_png \o <<",">> \o S_format \o <<"=">> \o S_webp
        /\ inv[i].sharp.toFormat.format = S_webp
        /\ inv[i].response.headers.ContentType = "image/webp"

====
